---- MODULE Spec2Model ----
(***************************************************************************)
(* Model of copenhell_agent.py: one run of main() is FETCHING -> DIFFING   *)
(* -> (no delta: save) | (delta: Spotify -> Last.fm -> send_email -> save).*)
(* Runs follow each other; the only state surviving a run is state_file.   *)
(***************************************************************************)
EXTENDS Integers, Sequences, FiniteSets, TLC

VARIABLES pc, CONFIG, state_file, page, current, known, new_artists, token,
          spotify_data, descriptions, mail, outcome, calls, fileAtStart,
          prev, delivered

vars == <<pc, CONFIG, state_file, page, current, known, new_artists, token,
          spotify_data, descriptions, mail, outcome, calls, fileAtStart,
          prev, delivered>>

(* ------------------------------ bounds --------------------------------- *)

\* number of distinct performer names the source site can announce
NumNames == 2

(* --------------------------- the universe ------------------------------ *)

\* every all-caps token a page can hold, in Python's string order
AllTokens == <<"BAND A", "BAND B", "BAND C", "BAND D", "COPENHELL", "IRON">>

Rank(n) == CHOOSE i \in 1..Len(AllTokens) : AllTokens[i] = n

Names == {AllTokens[i] : i \in 1..NumNames}

\* what the regex of lines 69 and 82 can match in a page's text
Texts == {{}, {"COPENHELL", "IRON"}, Names}
           \cup {{n, "COPENHELL"} : n \in Names}

\* hrefs of the landing page's anchors; only the first two are on copenhell.dk
Hrefs == {"copenhell.dk/post1", "copenhell.dk/post2", "example.com/x"}
OnSite(href) == href # "example.com/x"

\* an anchor: its href and whether its text holds band/artist/lineup
Anchor(h, k) == [href |-> h, keyword |-> k]

\* the anchor lists a landing page can hold
AnchorLists ==
    { <<>>,
      <<Anchor("copenhell.dk/post1", TRUE)>>,
      <<Anchor("copenhell.dk/post1", TRUE), Anchor("copenhell.dk/post2", TRUE)>>,
      <<Anchor("copenhell.dk/post2", TRUE), Anchor("copenhell.dk/post2", TRUE)>>,
      <<Anchor("example.com/x", TRUE), Anchor("copenhell.dk/post1", FALSE)>> }

\* a page as requests.get and raise_for_status see it
\* (an error page has a body too; status "error" is a failed request or a
\* status raise_for_status rejects)
LandingPages == [status : {"ok", "error"}, anchors : AnchorLists, text : Texts]
PostPages == {[status |-> "error", text |-> {}]}
               \cup [status : {"ok"}, text : Texts]

Range(s) == {s[i] : i \in DOMAIN s}

(* --------------------------- fetch_artists ----------------------------- *)

PostCap == 10

PostStopList == {"COPENHELL", "JUNE", "IRON", "NEW", "BANDS", "THE", "AND",
                 "FOR", "WITH", "FROM", "MORE", "ALL", "STAGE", "TICKETS",
                 "FESTIVAL"}

LandingStopList == {"COPENHELL", "JUNE", "NEW", "THE", "AND", "FOR", "TICKETS",
                    "FESTIVAL"}

\* lines 52-56: the hrefs of the anchors that look like announcement posts
RECURSIVE BandPosts(_)
BandPosts(anchors) ==
    IF anchors = <<>> THEN <<>>
    ELSE LET a == Head(anchors)
         IN  IF a.keyword /\ OnSite(a.href)
             THEN <<a.href>> \o BandPosts(Tail(anchors))
             ELSE BandPosts(Tail(anchors))

Capped(posts) == SubSeq(posts, 1, IF Len(posts) < PostCap THEN Len(posts) ELSE PostCap)

\* lines 63-78: one post; a failed request is caught and yields nothing
PostArtists(p) == IF p.status = "ok" THEN p.text \ PostStopList ELSE {}

\* lines 80-87: the fallback over the landing page's own text
LandingArtists(text) == text \ LandingStopList

\* the mutant: raise_for_status() of line 47 left out, an error page is parsed
FetchArtistsNoStatusCheck(landing, posts) ==
    LET urls == Range(Capped(BandPosts(landing.anchors)))
        fromPosts == UNION {PostArtists(posts[u]) : u \in urls}
    IN  [raised |-> FALSE,
         postFailed |-> \E u \in urls : posts[u].status # "ok",
         artists |-> IF fromPosts # {} THEN fromPosts
                     ELSE LandingArtists(landing.text)]

\* lines 44-90
FetchArtists(landing, posts) ==
    IF landing.status # "ok"
    THEN [raised |-> TRUE, postFailed |-> FALSE, artists |-> {}]
    ELSE LET urls == Range(Capped(BandPosts(landing.anchors)))
             fromPosts == UNION {PostArtists(posts[u]) : u \in urls}
         IN  [raised |-> FALSE,
              postFailed |-> \E u \in urls : posts[u].status # "ok",
              artists |-> IF fromPosts # {} THEN fromPosts
                          ELSE LandingArtists(landing.text)]

(* ------------------------------ state ---------------------------------- *)

NoFile == "absent"

\* sorted(artists), line 100
RECURSIVE Sorted(_)
Sorted(S) ==
    IF S = {} THEN <<>>
    ELSE LET m == CHOOSE x \in S : \A y \in S : Rank(x) <= Rank(y)
         IN  <<m>> \o Sorted(S \ {m})

\* the mutant: the dump loses the first name of the list
SaveDropsFirst(artists) ==
    IF artists = {} THEN <<>> ELSE Tail(Sorted(artists))

\* lines 98-100: the new content of the state file
SaveKnownArtists(artists) == Sorted(artists)

\* the mutant: the file is never found
LoadFindsNoFile(file) == {}

\* lines 94-96
LoadKnownArtists(file) == IF file = NoFile THEN {} ELSE Range(file)

\* the mutant: the empty roster is let through
EmptyScrapeUnchecked(cur) == FALSE

\* line 279
EmptyScrape(cur) == cur = {}

\* the mutant: the difference is not taken
DeltaWithoutKnown(cur, kn) == cur

\* line 284
Delta(cur, kn) == cur \ kn

(* ------------------------------ Spotify -------------------------------- *)

TokenResponses == {"timeout", "malformed", "not_ok", "no_token", "token"}
SearchResponses == {"timeout", "malformed", "not_ok", "no_items", "found"}

NoToken == "None"
EmptyRecord == <<>>
FoundRecord == [spotify_url |-> "url", genres |-> "Ukendt genre",
                followers |-> "0", popularity |-> 0, image |-> "img"]

\* lines 143-156: requests.post and resp.json() are not guarded
GetSpotifyToken(cfg, resp) ==
    IF ~cfg.spotify_client_id \/ ~cfg.spotify_client_secret
    THEN [raised |-> FALSE, token |-> NoToken, requests |-> 0]
    ELSE [raised |-> resp \in {"timeout", "malformed"},
          token |-> IF resp = "token" THEN "tok" ELSE NoToken,
          requests |-> 1]

\* lines 158-178: requests.get and resp.json() are not guarded
GetSpotifyInfo(resp) ==
    [raised |-> resp \in {"timeout", "malformed"},
     info |-> IF resp = "found" THEN FoundRecord ELSE EmptyRecord]

(* ------------------------------ Last.fm -------------------------------- *)

LastfmResponses == {"timeout", "http_error", "malformed", "no_bio", "bio"}

\* lines 104-139: everything after the key check is inside try/except
GetLastfmDescription(cfg, resp) ==
    IF ~cfg.lastfm_api_key
    THEN [desc |-> "", requests |-> 0]
    ELSE [desc |-> IF resp = "bio" THEN "bio" ELSE "", requests |-> 1]

(* ------------------------------- mail ---------------------------------- *)

\* lines 188-238: one row per new artist, in sorted order
RECURSIVE Rows(_, _, _)
Rows(names, sdata, descs) ==
    IF names = <<>> THEN <<>>
    ELSE LET name == Head(names)
         IN  <<[name |-> name,
                info |-> IF name \in DOMAIN sdata THEN sdata[name] ELSE EmptyRecord,
                description |-> IF name \in DOMAIN descs THEN descs[name] ELSE ""]>>
             \o Rows(Tail(names), sdata, descs)

NoMail == <<>>

\* the names a mail lists
MailNames(m) == {m[i].name : i \in DOMAIN m}

(* ------------------------------ the run -------------------------------- *)

NoCalls == [load |-> 0, save |-> 0, token |-> 0, search |-> 0, lastfm |-> 0,
            send |-> 0]

NoPage == [status |-> "none", postFailed |-> FALSE]

Configs == [spotify_client_id : BOOLEAN, spotify_client_secret : BOOLEAN,
            lastfm_api_key : BOOLEAN]

NoPrev == [outcome |-> "none", current |-> {}, new_artists |-> {}, saved |-> FALSE]

Init ==
    /\ pc = "idle"
    /\ CONFIG = [spotify_client_id |-> FALSE, spotify_client_secret |-> FALSE,
                 lastfm_api_key |-> FALSE]
    /\ state_file = NoFile
    /\ page = NoPage
    /\ current = {}
    /\ known = {}
    /\ new_artists = {}
    /\ token = NoToken
    /\ spotify_data = <<>>
    /\ descriptions = <<>>
    /\ mail = NoMail
    /\ outcome = "none"
    /\ calls = NoCalls
    /\ fileAtStart = NoFile
    /\ prev = NoPrev
    /\ delivered = {}

\* lines 24-35: a new process starts and reads its configuration; what the
\* last run did is remembered in prev and delivered
Start ==
    /\ pc = "idle"
    /\ pc' = "main"
    /\ CONFIG' \in Configs
    /\ fileAtStart' = state_file
    /\ prev' = [outcome |-> outcome, current |-> current,
                new_artists |-> new_artists, saved |-> calls.save > 0]
    /\ delivered' = IF calls.save > 0
                    THEN (delivered \cup MailNames(mail)) \cap current
                    ELSE delivered \cup MailNames(mail)
    /\ page' = NoPage
    /\ current' = {}
    /\ known' = {}
    /\ new_artists' = {}
    /\ token' = NoToken
    /\ spotify_data' = <<>>
    /\ descriptions' = <<>>
    /\ mail' = NoMail
    /\ outcome' = "none"
    /\ calls' = NoCalls
    /\ UNCHANGED state_file

\* lines 273-281
Fetch ==
    /\ pc = "main"
    /\ \E landing \in LandingPages :
       \E posts \in [Range(BandPosts(landing.anchors)) -> PostPages] :
         LET r == FetchArtists(landing, posts)
         IN  /\ page' = [status |-> landing.status, postFailed |-> r.postFailed]
             /\ IF r.raised
                THEN /\ outcome' = "fetch_error"
                     /\ pc' = "idle"
                     /\ UNCHANGED current
                ELSE /\ current' = r.artists
                     /\ IF EmptyScrape(r.artists)
                        THEN outcome' = "empty_scrape" /\ pc' = "idle"
                        ELSE outcome' = outcome /\ pc' = "diffing"
    /\ UNCHANGED <<CONFIG, state_file, known, new_artists, token, spotify_data,
                   descriptions, mail, calls, fileAtStart, prev, delivered>>

\* lines 283-289
Diff ==
    /\ pc = "diffing"
    /\ known' = LoadKnownArtists(state_file)
    /\ new_artists' = Delta(current, known')
    /\ IF new_artists' = {}
       THEN /\ state_file' = SaveKnownArtists(current)
            /\ calls' = [calls EXCEPT !.load = 1, !.save = 1]
            /\ outcome' = "no_delta"
            /\ pc' = "idle"
       ELSE /\ calls' = [calls EXCEPT !.load = 1]
            /\ pc' = "spotify"
            /\ UNCHANGED <<state_file, outcome>>
    /\ UNCHANGED <<CONFIG, page, current, token, spotify_data, descriptions,
                   mail, fileAtStart, prev, delivered>>

\* lines 294-299: an exception of either Spotify call leaves main uncaught
EnrichSpotify ==
    /\ pc = "spotify"
    /\ \E tresp \in TokenResponses :
         LET t == GetSpotifyToken(CONFIG, tresp)
         IN  /\ token' = t.token
             /\ IF t.raised
                THEN /\ calls' = [calls EXCEPT !.token = t.requests]
                     /\ outcome' = "crashed"
                     /\ pc' = "idle"
                     /\ UNCHANGED spotify_data
                ELSE IF t.token = NoToken
                THEN /\ calls' = [calls EXCEPT !.token = t.requests]
                     /\ pc' = "lastfm"
                     /\ UNCHANGED <<spotify_data, outcome>>
                ELSE \E sresp \in [new_artists -> SearchResponses] :
                       LET raising == {n \in new_artists : GetSpotifyInfo(sresp[n]).raised}
                       IN  IF raising # {}
                           THEN \* the loop stops at the first raising name;
                                \* the set's iteration order decides how many came first
                                /\ \E before \in SUBSET (new_artists \ raising) :
                                     calls' = [calls EXCEPT !.token = t.requests,
                                                 !.search = Cardinality(before) + 1]
                                /\ outcome' = "crashed"
                                /\ pc' = "idle"
                                /\ UNCHANGED spotify_data
                           ELSE /\ spotify_data' =
                                     [n \in new_artists |-> GetSpotifyInfo(sresp[n]).info]
                                /\ calls' = [calls EXCEPT !.token = t.requests,
                                                !.search = Cardinality(new_artists)]
                                /\ pc' = "lastfm"
                                /\ UNCHANGED outcome
    /\ UNCHANGED <<CONFIG, state_file, page, current, known, new_artists,
                   descriptions, mail, fileAtStart, prev, delivered>>

\* lines 302-306
EnrichLastfm ==
    /\ pc = "lastfm"
    /\ \E lresp \in [new_artists -> LastfmResponses] :
         /\ descriptions' =
              [n \in new_artists |-> GetLastfmDescription(CONFIG, lresp[n]).desc]
         /\ calls' = [calls EXCEPT !.lastfm =
                         Cardinality(new_artists)
                           * GetLastfmDescription(CONFIG, "bio").requests]
    /\ pc' = "dispatch"
    /\ UNCHANGED <<CONFIG, state_file, page, current, known, new_artists, token,
                   spotify_data, mail, outcome, fileAtStart, prev, delivered>>

\* the mutant: the roster is saved although the mail failed
DispatchFailsButSaves ==
    /\ pc = "dispatch"
    /\ state_file' = SaveKnownArtists(current)
    /\ calls' = [calls EXCEPT !.send = 1, !.save = 1]
    /\ outcome' = "dispatch_failed"
    /\ pc' = "idle"
    /\ UNCHANGED <<CONFIG, page, current, known, new_artists, token,
                   spotify_data, descriptions, mail, fileAtStart, prev, delivered>>

\* lines 308-312: send_email raises while rendering or in the SMTP session
DispatchFails ==
    /\ pc = "dispatch"
    /\ calls' = [calls EXCEPT !.send = 1]
    /\ outcome' = "dispatch_failed"
    /\ pc' = "idle"
    /\ UNCHANGED <<CONFIG, state_file, page, current, known, new_artists, token,
                   spotify_data, descriptions, mail, fileAtStart, prev, delivered>>

\* lines 308-315: the mail goes out and the current roster is saved
DispatchSucceeds ==
    /\ pc = "dispatch"
    /\ mail' = Rows(Sorted(new_artists), spotify_data, descriptions)
    /\ state_file' = SaveKnownArtists(current)
    /\ calls' = [calls EXCEPT !.send = 1, !.save = 1]
    /\ outcome' = "success"
    /\ pc' = "idle"
    /\ UNCHANGED <<CONFIG, page, current, known, new_artists, token,
                   spotify_data, descriptions, fileAtStart, prev, delivered>>

Next ==
    \/ Start
    \/ Fetch
    \/ Diff
    \/ EnrichSpotify
    \/ EnrichLastfm
    \/ DispatchFails
    \/ DispatchSucceeds

Spec == Init /\ [][Next]_vars

(* ------------------------------ claims --------------------------------- *)

\* the known set as the run found it on disk
KnownAtStart == IF fileAtStart = NoFile THEN {} ELSE Range(fileAtStart)

RunEnded == pc = "idle" /\ outcome # "none"

\* C1: a mail that is sent lists exactly current minus the known set the run
\* started with, and send_email is called only when that difference is not empty
C1_DeltaCorrectness ==
    /\ mail # NoMail => MailNames(mail) = current \ KnownAtStart
    /\ calls.send > 0 => current \ KnownAtStart # {}

C1_Witness ==
    /\ mail # NoMail
    /\ KnownAtStart # {}
    /\ MailNames(mail) # current

\* C2: after a run that ended successfully (no delta, or delta and the mail
\* went out) the state file holds exactly the roster fetched in that run
C2_ReplacedInFull ==
    (RunEnded /\ outcome \in {"no_delta", "success"})
        => state_file # NoFile /\ Range(state_file) = current

C2_Witness ==
    /\ RunEnded
    /\ outcome = "success"
    /\ KnownAtStart \ current # {}

\* C3: a run in which send_email raised leaves the state file as it found it
\* and never calls save
C3_DispatchFailureKeepsState ==
    (pc = "idle" /\ calls.send > 0 /\ mail = NoMail)
        => state_file = fileAtStart /\ calls.save = 0

C3_Witness ==
    /\ pc = "idle"
    /\ calls.send > 0
    /\ mail = NoMail
    /\ fileAtStart # NoFile

\* C4: a run whose fetch raised or returned no candidate ends without load,
\* save, enrichment call or mail, the state file untouched
C4_FetchAbortTouchesNothing ==
    (page.status = "error" \/ (page.status = "ok" /\ current = {}))
        => /\ pc = "idle"
           /\ calls = NoCalls
           /\ mail = NoMail
           /\ state_file = fileAtStart

C4_Witness ==
    /\ page.status = "ok"
    /\ current = {}
    /\ pc = "idle"
    /\ fileAtStart # NoFile
    /\ fileAtStart # <<>>

\* C5: a run that follows a run which saved, and fetches the same roster,
\* sends no mail and leaves that roster in the state file
C5_Idempotence ==
    (prev.saved /\ page.status = "ok" /\ current = prev.current)
        => /\ calls.send = 0
           /\ mail = NoMail
           /\ state_file # NoFile
           /\ Range(state_file) = current

C5_Witness ==
    /\ RunEnded
    /\ prev.outcome = "success"
    /\ page.status = "ok"
    /\ current = prev.current
    /\ calls.save > 0

\* C6: enrichment never fails the run: a run with a non-empty delta always
\* reaches send_email, whatever the catalog services answered
C6_EnrichingNeverFailsRun ==
    (RunEnded /\ new_artists # {}) => calls.send > 0

\* C7: absent credentials are not fatal: without Spotify credentials no
\* token or search request is made, without the Last.fm key no lookup is
\* made and every description is empty, and in both cases a run with a
\* non-empty delta reaches send_email for the whole delta and, the mail
\* sent, saves the roster
C7_AbsentCredentialsNonFatal ==
    LET spotifyAbsent == ~CONFIG.spotify_client_id \/ ~CONFIG.spotify_client_secret
        lastfmAbsent == ~CONFIG.lastfm_api_key
    IN  (RunEnded /\ new_artists # {} /\ (spotifyAbsent \/ lastfmAbsent))
          => /\ spotifyAbsent => calls.token = 0 /\ calls.search = 0
             /\ lastfmAbsent => /\ calls.lastfm = 0
                                 /\ \A n \in DOMAIN descriptions : descriptions[n] = ""
             /\ calls.send > 0
             /\ mail # NoMail => /\ MailNames(mail) = new_artists
                                  /\ Range(state_file) = current

\* C8: after a run whose dispatch failed, the next run that fetches the same
\* roster computes the same delta and calls send_email for it again
C8_Redelivery ==
    (RunEnded /\ prev.outcome = "dispatch_failed" /\ page.status = "ok"
       /\ current = prev.current)
        => new_artists = prev.new_artists /\ calls.send > 0

\* C9 as written: a run in which the landing page or any post could not be
\* retrieved never loads, notifies or saves
C9_AnyPageFailureIsTerminal ==
    (page.status = "error" \/ page.postFailed)
        => calls.load = 0 /\ calls.send = 0 /\ calls.save = 0

\* C9 amended: a failure on the landing page ends the run before load, mail
\* and save; a failure on a post is not a fetch error of the run
C9_LandingFailureIsTerminal ==
    /\ page.status = "error"
         => /\ pc = "idle"
            /\ calls.load = 0 /\ calls.send = 0 /\ calls.save = 0
            /\ state_file = fileAtStart
    /\ page.postFailed => outcome # "fetch_error"

C9_Witness ==
    /\ page.status = "error"
    /\ outcome = "fetch_error"
    /\ fileAtStart # NoFile

\* C10: a mail never lists a name that was in the known set when the run
\* started, nor a name delivered earlier that every saving run since has
\* kept in its roster
C10_NoRenotification ==
    /\ calls.send > 0 => new_artists \cap KnownAtStart = {}
    /\ MailNames(mail) \cap delivered = {}

C10_Witness ==
    /\ mail # NoMail
    /\ delivered # {}
    /\ KnownAtStart # {}
    /\ prev.outcome = "success"

====
